---- MODULE Spec2Model ----
(***************************************************************************)
(* Model of pywren's Executor (src/pywren/executor.py): map, its fan-out   *)
(* over a ThreadPool, invoke_with_keys, agg_data and reduce.               *)
(*                                                                         *)
(* Python indices are 0-based; sequences here are 1-based, so the Call of  *)
(* input index i (0 <= i < N) is items[i+1], res[i+1], ranges[i+1].        *)
(***************************************************************************)
EXTENDS Integers, Sequences, FiniteSets, Bags, TLC

(* ------------------------------ bounds -------------------------------- *)
\* longest input list handed to map
MaxN == 3
\* input values are 1..MaxItem; value v serializes to v bytes
MaxItem == 2
\* largest invoke_pool_threads the caller of map chooses
MaxPool == 2
\* the configured map_item_limit, when one is configured
MapItemLimit == 2
\* longest payload list, and longest payload, agg_data is applied to directly
MaxAggLen == 3
MaxDatumLen == 2
\* input indices are sampled from 0..MaxSmall and around the powers of ten
\* up to 10^MaxExp
MaxSmall == 3
MaxExp == 5

(* ------------------------- program constants -------------------------- *)
\* wrenconfig.MAX_AGG_DATA_SIZE, scaled down to the model's payload sizes
MAX_AGG_DATA_SIZE == 4
\* "{:05d}"
CallIdWidth == 5
\* default of map's invoke_pool_threads, used by call_async
DefaultPoolThreads == 64

(* --------------------------- pure functions --------------------------- *)
RECURSIVE Join(_)
\* b"".join(data_strs)
Join(data_strs) ==
    IF data_strs = <<>> THEN <<>>
    ELSE Head(data_strs) \o Join(Tail(data_strs))

RECURSIVE AggLoop(_, _, _, _)
\* the loop of agg_data: k payloads done, pos bytes consumed
AggLoop(data_strs, k, pos, ranges) ==
    IF k = Len(data_strs) THEN ranges
    ELSE LET l == Len(data_strs[k + 1])
         IN  AggLoop(data_strs, k + 1, pos + l,
                     Append(ranges, <<pos, pos + l - 1>>))

RECURSIVE AggLoopExclusiveEnd(_, _, _, _)
AggLoopExclusiveEnd(data_strs, k, pos, ranges) ==
    IF k = Len(data_strs) THEN ranges
    ELSE LET l == Len(data_strs[k + 1])
         IN  AggLoopExclusiveEnd(data_strs, k + 1, pos + l,
                                 Append(ranges, <<pos, pos + l>>))

\* agg_data with the end of a range one past the payload's last byte
agg_data_ExclusiveEnd(data_strs) ==
    [blob |-> Join(data_strs), ranges |-> AggLoopExclusiveEnd(data_strs, 0, 0, <<>>)]

\* Executor.agg_data: (blob, ranges), ranges inclusive and 0-based
agg_data(data_strs) ==
    [blob |-> Join(data_strs), ranges |-> AggLoop(data_strs, 0, 0, <<>>)]

\* Python's blob[start : end + 1] for 0 <= start, -1 <= end: a slice stops
\* at the end of the blob
Slice(blob, start, end) ==
    SubSeq(blob, start + 1, IF end + 1 > Len(blob) THEN Len(blob) ELSE end + 1)

RECURSIVE Digits(_)
\* decimal digits of n >= 0, most significant first
Digits(n) == IF n < 10 THEN <<n>> ELSE Append(Digits(n \div 10), n % 10)

RECURSIVE PadLeft(_, _)
PadLeft(s, w) == IF Len(s) >= w THEN s ELSE PadLeft(<<0>> \o s, w)

\* "{:05d}".format(i): a string of decimal digits, as a sequence of digits
FormatCallId(i) == PadLeft(Digits(i), CallIdWidth)

\* the serializer (pickle) on one input value: v bytes, distinct per value
Serialize(v) == [k \in 1..v |-> 10 * v + k]

\* data_strs = func_and_data_ser[1:]
DataStrs(data) == [k \in 1..Len(data) |-> Serialize(data[k])]

RECURSIVE SumLen(_)
\* sum(len(x) for x in data_strs)
SumLen(data_strs) ==
    IF data_strs = <<>> THEN 0
    ELSE Len(Head(data_strs)) + SumLen(Tail(data_strs))

(* ----------------- values of the invocation record -------------------- *)
\* every value of arg_dict is a record of one shape, so any two compare
Val(tag, cs, id, lo, hi) == [tag |-> tag, cs |-> cs, id |-> id, lo |-> lo, hi |-> hi]
Tag(tag) == Val(tag, 0, <<>>, 0, 0)
NoneVal == Tag("None")

\* storage_utils.create_func_key / create_mod_key / create_agg_data_key
create_func_key(cs) == Val("func", cs, <<>>, 0, 0)
create_mod_key(depkey) == Val("mod", 0, <<>>, 0, 0)
create_agg_data_key(cs) == Val("agg", cs, <<>>, 0, 0)
\* storage_utils.create_keys: data, output, status, cancel
create_keys(cs, call_id) ==
    [data   |-> Val("data", cs, call_id, 0, 0),
     output |-> Val("output", cs, call_id, 0, 0),
     status |-> Val("status", cs, call_id, 0, 0),
     cancel |-> Val("cancel", cs, call_id, 0, 0)]
RangeVal(r) == Val("range", 0, <<>>, r[1], r[2])

\* the keys of arg_dict as built at lines 99-113
BaseFields ==
    {"storage_config", "func_key", "data_key", "output_key", "status_key",
     "cancel_key", "callset_id", "job_max_runtime", "data_byte_range",
     "call_id", "use_cached_runtime", "runtime", "pywren_version",
     "runtime_url"}

\* dict.update(d, e): e's entries win
DictUpdate(d, e) ==
    [k \in DOMAIN d \cup DOMAIN e |-> IF k \in DOMAIN e THEN e[k] ELSE d[k]]

EmptyDict == [k \in {} |-> NoneVal]

\* arg_dict = {...} of invoke_with_keys
BaseArgs(fkey, keys, data_key, cs, call_id, data_byte_range) ==
    [k \in BaseFields |->
        CASE k = "storage_config"     -> Tag("storage_config")
          [] k = "func_key"           -> fkey
          [] k = "data_key"           -> data_key
          [] k = "output_key"         -> keys.output
          [] k = "status_key"         -> keys.status
          [] k = "cancel_key"         -> keys.cancel
          [] k = "callset_id"         -> Val("callset", cs, <<>>, 0, 0)
          [] k = "job_max_runtime"    -> Tag("job_max_runtime")
          [] k = "data_byte_range"    -> data_byte_range
          [] k = "call_id"            -> Val("call", 0, call_id, 0, 0)
          [] k = "use_cached_runtime" -> Tag("True")
          [] k = "runtime"            -> Tag("runtime")
          [] k = "pywren_version"     -> Tag("version")
          [] k = "runtime_url"        -> Tag("url")]

\* lines 115-117: extra_env is stored under one key when it is not None
WithEnv(d, envGiven) ==
    IF envGiven THEN DictUpdate(d, [k \in {"extra_env"} |-> Tag("env")]) ELSE d

\* the sanity check of line 122 left out
MetaCollidesNever(d, extra_meta) == FALSE

\* line 122: some key of extra_meta is already a key of arg_dict
MetaCollides(d, extra_meta) == \E k \in DOMAIN extra_meta : k \in DOMAIN d

\* lines 126-127
WithSubmitTime(d) == DictUpdate(d, [k \in {"host_submit_time"} |-> Tag("stamp")])

\* the overrides applied first, so that every computed field replaces them
FinalArgsOverridesFirst(base, envGiven, extra_meta, overwrite_invoke_args) ==
    DictUpdate(overwrite_invoke_args,
               WithSubmitTime(DictUpdate(WithEnv(base, envGiven), extra_meta)))

\* lines 99-134 when no ValueError is raised: the record handed to invoke
FinalArgs(base, envGiven, extra_meta, overwrite_invoke_args) ==
    DictUpdate(WithSubmitTime(DictUpdate(WithEnv(base, envGiven), extra_meta)),
               overwrite_invoke_args)

(* ------------------------------- state -------------------------------- *)
VARIABLES
    map_item_limit, \* self.map_item_limit: <<>> for None, <<n>> for n
    mpc,            \* where the thread calling map is
    caller,         \* who called map: "user", or "reduce" through call_async
    items,          \* data = list(iterdata)
    opts,           \* the keyword arguments of the map call
    callset,        \* callset ids handed out so far; the current one is the last
    aggOn,          \* agg_data_key is not None
    func_key,       \* func_key of the current callset
    task,           \* per input index: the pool task and its AsyncResult
    res,            \* the list map is collecting
    raised,         \* the exception map raised
    pool,           \* the ThreadPool of the current map call
    store,          \* bag of the calls made on self.storage
    backend,        \* bag of the calls made on self.invoker.invoke
    futs,           \* the handles the caller owns after map returned
    rpc,            \* where the thread calling reduce is
    rargs,          \* the arguments of the reduce call
    rfut,           \* the handle reduce returned
    payloads,       \* the list of byte strings a direct call of agg_data gets
    aggOut,         \* what that call returned
    probe,          \* two input indices i < j of one map
    call_ids        \* the call ids line 336 formats for them

vars == <<map_item_limit, mpc, caller, items, opts, callset, aggOn, func_key,
          task, res, raised, pool, store, backend, futs, rpc, rargs, rfut,
          payloads, aggOut, probe, call_ids>>

aggVars == <<payloads, aggOut, probe, call_ids>>
mapVars == <<mpc, caller, items, opts, callset, aggOn, func_key, task, res,
             raised, pool>>

(* ------------------------------ helpers ------------------------------- *)
N == Len(items)
\* the input indices of the current callset, once its tasks exist
Calls == DOMAIN task

\* the handle as constructed at line 151, line 153 left out
ResponseFutureNotInvoked(call_id, cs) ==
    [callset_id |-> cs, call_id |-> call_id, state |-> "new", value |-> 0]

\* ResponseFuture(call_id, callset_id, ...) after _set_state(JobState.invoked)
ResponseFuture(call_id, cs) ==
    [callset_id |-> cs, call_id |-> call_id, state |-> "invoked", value |-> 0]
NoFut == [callset_id |-> 0, call_id |-> <<>>, state |-> "none", value |-> 0]

NoRaise == [kind |-> "none", idx |-> -1]
Raise(kind, idx) == [kind |-> kind, idx |-> idx]

\* a task not yet handed to the pool
NewTask ==
    [st |-> "new", data_str |-> <<>>, call_id |-> <<>>,
     data_byte_range |-> NoneVal, val |-> NoFut, err |-> "none"]

\* one call on the store / on the backend, and whether it returned or raised
\* (who: the caller of map, cs: the callset, idx: the Call's input index, or -1
\* for the thread calling map)
PutCall(kind, key, blob, ok, cs, idx) ==
    [kind |-> kind, key |-> key, blob |-> blob, ok |-> ok,
     who |-> caller, cs |-> cs, idx |-> idx]
InvokeCall(args, ok, cs, idx) ==
    [args |-> args, ok |-> ok, who |-> caller, cs |-> cs, idx |-> idx]
BagAdd(b, e) == b (+) SetToBag({e})

\* func_module_str: the pickled function with the module data that is left
FuncModuleStr(exclude) == IF exclude THEN <<1>> ELSE <<1, 2>>

\* the pickled list of handles that reduce maps over
FutListItem == 1

(* ---------------------------- option sets ----------------------------- *)
\* input lists of every length up to MaxN whose neighbours differ
ItemLists ==
    {[k \in 1..n |-> ((k + r) % MaxItem) + 1] : n \in 0..MaxN, r \in 0..(MaxItem - 1)}
\* the fields an override map names: a computed field, the environment, a
\* key of the caller's metadata, the submission timestamp and a new field
OverrideFields ==
    {"data_key", "extra_env", "user_tag", "host_submit_time", "injected"}
\* extra_env, extra_meta and overwrite_invoke_args of a map call
InvokeOptions ==
    {[envGiven |-> FALSE, extra_meta |-> EmptyDict,
      overwrite_invoke_args |-> EmptyDict],
     [envGiven |-> TRUE,
      extra_meta |-> [k \in {"user_tag", "host_submit_time"} |-> Tag("meta")],
      overwrite_invoke_args |-> EmptyDict],
     [envGiven |-> FALSE,
      extra_meta |-> [k \in {"user_tag", "data_key"} |-> Tag("meta")],
      overwrite_invoke_args |-> EmptyDict],
     [envGiven |-> TRUE, extra_meta |-> [k \in {"user_tag"} |-> Tag("meta")],
      overwrite_invoke_args |-> [k \in OverrideFields |-> Tag("override")]]}
MapOptions ==
    {[threads |-> t, data_all_as_one |-> a, envGiven |-> io.envGiven,
      extra_meta |-> io.extra_meta,
      overwrite_invoke_args |-> io.overwrite_invoke_args,
      exclude |-> x, depkey |-> d] :
        t \in 1..MaxPool, a \in BOOLEAN, io \in InvokeOptions,
        x \in BOOLEAN, d \in BOOLEAN}
\* the options call_async leaves at map's defaults
CallAsyncOptions(envGiven, extra_meta) ==
    [threads |-> DefaultPoolThreads, data_all_as_one |-> TRUE,
     envGiven |-> envGiven, extra_meta |-> extra_meta,
     overwrite_invoke_args |-> EmptyDict, exclude |-> FALSE, depkey |-> FALSE]

\* agg_data has not been called directly
NoAggOut == [done |-> FALSE, blob |-> <<>>, ranges |-> <<>>]

(* -------------------------------- Init -------------------------------- *)
\* the Executor after __init__, before any call
InitExecutor ==
    /\ mpc = "idle"
    /\ caller = "user"
    /\ items = <<>>
    /\ opts = CallAsyncOptions(FALSE, EmptyDict)
    /\ callset = 0
    /\ aggOn = FALSE
    /\ func_key = NoneVal
    /\ task = [i \in {} |-> NewTask]
    /\ res = <<>>
    /\ raised = NoRaise
    /\ pool = "none"
    /\ store = EmptyBag
    /\ backend = EmptyBag
    /\ futs = <<>>
    /\ rpc = "idle"
    /\ rargs = [function |-> "sum", envGiven |-> FALSE, extra_meta |-> EmptyDict]
    /\ rfut = NoFut
    /\ aggOut = NoAggOut
    /\ call_ids = <<>>

\* lines 69-72: map_item_limit is None or the configured number
Init ==
    /\ InitExecutor
    /\ map_item_limit \in {<<>>, <<MapItemLimit>>}
    /\ payloads = <<>>
    /\ probe = <<0, 1>>

(* ------------------------- map: calling thread ------------------------ *)
\* the user calls map(func, iterdata, ...)
MapCall(data, o) ==
    /\ mpc = "idle"
    /\ mpc' = "start"
    /\ items' = data
    /\ opts' = o
    /\ UNCHANGED <<aggVars, map_item_limit, caller, callset, aggOn, func_key, task, res,
                   raised, pool, store, backend, futs, rpc, rargs, rfut>>

\* lines 226-228
MapEmpty ==
    /\ mpc = "start"
    /\ items = <<>>
    /\ mpc' = "returned"
    /\ res' = <<>>
    /\ futs' = IF caller = "user" THEN <<>> ELSE futs
    /\ UNCHANGED <<aggVars, map_item_limit, caller, items, opts, callset, aggOn, func_key,
                   task, raised, pool, store, backend, rpc, rargs, rfut>>

\* line 230 with >= for >
LimitExceededAtLimit == map_item_limit # <<>> /\ N >= map_item_limit[1]

\* line 230
LimitExceeded == map_item_limit # <<>> /\ N > map_item_limit[1]

\* lines 230-234
MapLimitRaise ==
    /\ mpc = "start"
    /\ items # <<>>
    /\ LimitExceeded
    /\ mpc' = "raised"
    /\ raised' = Raise("ValueError:limit", -1)
    /\ UNCHANGED <<aggVars, map_item_limit, caller, items, opts, callset, aggOn, func_key,
                   task, res, pool, store, backend, futs, rpc, rargs, rfut>>

\* lines 226-234 without the early return on an empty list
PassesChecksNoEmptyReturn == mpc = "start" /\ ~LimitExceeded

\* lines 226-234: neither the early return nor the ValueError
PassesChecks == mpc = "start" /\ items # <<>> /\ ~LimitExceeded

\* line 258 with <= for <
AggregatesAtThreshold ==
    SumLen(DataStrs(items)) <= MAX_AGG_DATA_SIZE /\ opts.data_all_as_one

\* line 258
Aggregates ==
    SumLen(DataStrs(items)) < MAX_AGG_DATA_SIZE /\ opts.data_all_as_one

\* lines 236-256: the pool and the callset id are created, the data pickled
MapEnter ==
    /\ PassesChecks
    /\ callset' = callset + 1
    /\ pool' = "run"
    /\ task' = [i \in 0..(N - 1) |-> NewTask]
    /\ res' = <<>>
    /\ UNCHANGED <<aggVars, map_item_limit, caller, items, opts, backend, futs, rpc,
                   rargs, rfut>>

\* lines 258-265, the put returns
MapAggPut ==
    /\ MapEnter
    /\ Aggregates
    /\ store' = BagAdd(store, PutCall("data", create_agg_data_key(callset'),
                                      agg_data(DataStrs(items)).blob, TRUE,
                                      callset', -1))
    /\ aggOn' = TRUE
    /\ mpc' = "func"
    /\ UNCHANGED <<func_key, raised>>

\* lines 258-262, the put raises
MapAggPutRaise ==
    /\ MapEnter
    /\ Aggregates
    /\ store' = BagAdd(store, PutCall("data", create_agg_data_key(callset'),
                                      agg_data(DataStrs(items)).blob, FALSE,
                                      callset', -1))
    /\ mpc' = "raised"
    /\ raised' = Raise("StoreError", -1)
    /\ UNCHANGED <<aggOn, func_key>>

\* lines 266-269
MapNoAgg ==
    /\ MapEnter
    /\ ~Aggregates
    /\ aggOn' = FALSE
    /\ mpc' = "func"
    /\ UNCHANGED <<func_key, raised, store>>

\* lines 271-275: mod_paths is unbound when a dependency key was given
\* (line 249 binds mod_path), so list(mod_paths) raises
MapExcludeRaise ==
    /\ mpc = "func"
    /\ opts.exclude /\ opts.depkey
    /\ mpc' = "raised"
    /\ raised' = Raise("NameError", -1)
    /\ UNCHANGED <<aggVars, map_item_limit, caller, items, opts, callset, aggOn, func_key,
                   task, res, pool, store, backend, futs, rpc, rargs, rfut>>

\* lines 280-292, the put returns
MapFuncPut ==
    /\ mpc = "func"
    /\ ~opts.depkey
    /\ func_key' = create_func_key(callset)
    /\ store' = BagAdd(store, PutCall("func", func_key',
                                      FuncModuleStr(opts.exclude), TRUE,
                                      callset, -1))
    /\ mpc' = "submit"
    /\ UNCHANGED <<aggVars, map_item_limit, caller, items, opts, callset, aggOn, task, res,
                   raised, pool, backend, futs, rpc, rargs, rfut>>

\* lines 280-292, the put raises
MapFuncPutRaise ==
    /\ mpc = "func"
    /\ ~opts.depkey
    /\ store' = BagAdd(store, PutCall("func", create_func_key(callset),
                                      FuncModuleStr(opts.exclude), FALSE,
                                      callset, -1))
    /\ mpc' = "raised"
    /\ raised' = Raise("StoreError", -1)
    /\ UNCHANGED <<aggVars, map_item_limit, caller, items, opts, callset, aggOn, func_key,
                   task, res, pool, backend, futs, rpc, rargs, rfut>>

\* lines 293-298
MapFuncCached ==
    /\ mpc = "func"
    /\ opts.depkey /\ ~opts.exclude
    /\ func_key' = create_mod_key(1)
    /\ mpc' = "submit"
    /\ UNCHANGED <<aggVars, map_item_limit, caller, items, opts, callset, aggOn, task, res,
                   raised, pool, store, backend, futs, rpc, rargs, rfut>>

\* the loop index i of line 335: the tasks handed to the pool so far
Submitted == {i \in Calls : task[i].st # "new"}

\* line 340 with the range of the first Call for every Call
ByteRangeOfFirst(i) ==
    IF aggOn THEN RangeVal(agg_data(DataStrs(items)).ranges[1]) ELSE NoneVal

\* line 340
ByteRange(i) ==
    IF aggOn THEN RangeVal(agg_data(DataStrs(items)).ranges[i + 1]) ELSE NoneVal

\* lines 335-350, one iteration: pool.apply_async(invoke, (...))
MapSubmit ==
    /\ mpc = "submit"
    /\ LET i == Cardinality(Submitted)
       IN  /\ task' = [task EXCEPT ![i] =
                         [st |-> "queued", data_str |-> DataStrs(items)[i + 1],
                          call_id |-> FormatCallId(i),
                          data_byte_range |-> ByteRange(i),
                          val |-> NoFut, err |-> "none"]]
           /\ mpc' = IF i = N - 1 THEN "collect" ELSE "submit"
    /\ UNCHANGED <<aggVars, map_item_limit, caller, items, opts, callset, aggOn, func_key,
                   res, raised, pool, store, backend, futs, rpc, rargs, rfut>>

\* collecting whichever task has finished last in index order
CollectSlotAnyFinished ==
    IF \E j \in DOMAIN task : task[j].st = "done"
    THEN CHOOSE j \in DOMAIN task :
            task[j].st = "done" /\ \A h \in DOMAIN task : task[h].st = "done" => h <= j
    ELSE Len(res)

\* collecting a failed task as soon as there is one, whatever its index
CollectSlotFirstFailure ==
    IF \E j \in DOMAIN task : task[j].st = "failed"
    THEN CHOOSE j \in DOMAIN task :
            task[j].st = "failed" /\ \A h \in DOMAIN task : task[h].st = "failed" => h <= j
    ELSE Len(res)

\* line 352: the AsyncResult the comprehension is blocked on
CollectSlot == Len(res)

\* line 352, c.get() returns the task's handle
MapCollect ==
    /\ mpc = "collect"
    /\ Len(res) < N
    /\ task[CollectSlot].st = "done"
    /\ res' = Append(res, task[CollectSlot].val)
    /\ UNCHANGED <<aggVars, map_item_limit, mpc, caller, items, opts, callset, aggOn,
                   func_key, task, raised, pool, store, backend, futs, rpc,
                   rargs, rfut>>

\* the pool terminated when the exception leaves map
PoolTerminatedOnRaise == "terminated"

\* the pool when the exception leaves map at line 352: lines 353-354 are
\* skipped and nothing terminates the pool, so its workers go on
PoolAfterRaise == pool

\* line 352, c.get() re-raises the task's exception
MapCollectRaise ==
    /\ mpc = "collect"
    /\ Len(res) < N
    /\ task[CollectSlot].st = "failed"
    /\ mpc' = "raised"
    /\ raised' = Raise(task[CollectSlot].err, CollectSlot)
    /\ pool' = PoolAfterRaise
    /\ UNCHANGED <<aggVars, map_item_limit, caller, items, opts, callset, aggOn, func_key,
                   task, res, store, backend, futs, rpc, rargs, rfut>>

\* pool.join() returns once the workers have exited: no task is left
PoolDrained == \A i \in Calls : task[i].st \in {"done", "failed"}

\* lines 353-354 left out
PoolLeftRunning == pool

\* the state of the pool after lines 353-354
PoolAfterJoin == "joined"

\* lines 353-361: pool.close(), pool.join(), return res
MapReturn ==
    /\ mpc = "collect"
    /\ Len(res) = N
    /\ PoolDrained
    /\ pool' = PoolAfterJoin
    /\ mpc' = "returned"
    /\ futs' = IF caller = "user" THEN res ELSE futs
    /\ UNCHANGED <<aggVars, map_item_limit, caller, items, opts, callset, aggOn, func_key,
                   task, res, raised, store, backend, rpc, rargs, rfut>>

(* ------------------------- map: pool workers -------------------------- *)
Queued == {i \in Calls : task[i].st = "queued"}
Running == {i \in Calls : task[i].st = "running"}

\* the pool's task queue is first in, first out
QueueHead(i) == i \in Queued /\ \A j \in Queued : i <= j

\* a pool that keeps one of its threads from taking tasks
WorkerFreeButOne == pool = "run" /\ Cardinality(Running) < opts.threads - 1

\* a worker thread of the pool is idle
WorkerFree == pool = "run" /\ Cardinality(Running) < opts.threads

\* a worker takes task i from the queue and enters invoke (line 302)
TaskStarts(i) == QueueHead(i) /\ WorkerFree

\* line 321 / line 319: the data key the Call's record carries
EffectiveDataKey(i) ==
    IF aggOn THEN create_agg_data_key(callset)
    ELSE create_keys(callset, task[i].call_id).data

\* lines 99-113: arg_dict of the Call of task i
TaskBaseArgs(i) ==
    BaseArgs(func_key, create_keys(callset, task[i].call_id), EffectiveDataKey(i),
             callset, task[i].call_id, task[i].data_byte_range)

\* lines 119-123: the ValueError of invoke_with_keys
RaisesValueError(i) ==
    MetaCollides(WithEnv(TaskBaseArgs(i), opts.envGiven), opts.extra_meta)

\* lines 99-134: the record handed to self.invoker.invoke
InvokeArgs(i) ==
    FinalArgs(TaskBaseArgs(i), opts.envGiven, opts.extra_meta,
              opts.overwrite_invoke_args)

Finish(i, fut) == [task EXCEPT ![i].st = "done", ![i].val = fut]
Fail(i, err) == [task EXCEPT ![i].st = "failed", ![i].err = err]

\* lines 311-317: the task uploads its own payload, the put returns
TaskPut(i) ==
    /\ TaskStarts(i)
    /\ ~aggOn
    /\ store' = BagAdd(store, PutCall("data", create_keys(callset, task[i].call_id).data,
                                      task[i].data_str, TRUE, callset, i))
    /\ task' = [task EXCEPT ![i].st = "running"]
    /\ UNCHANGED <<aggVars, map_item_limit, mpc, caller, items, opts, callset, aggOn,
                   func_key, res, raised, pool, backend, futs, rpc, rargs, rfut>>

\* lines 311-314: the put raises, and so does the task
TaskPutRaise(i) ==
    /\ TaskStarts(i)
    /\ ~aggOn
    /\ store' = BagAdd(store, PutCall("data", create_keys(callset, task[i].call_id).data,
                                      task[i].data_str, FALSE, callset, i))
    /\ task' = Fail(i, "StoreError")
    /\ UNCHANGED <<aggVars, map_item_limit, mpc, caller, items, opts, callset, aggOn,
                   func_key, res, raised, pool, backend, futs, rpc, rargs, rfut>>

\* line 323 reached with the upload of lines 311-317 skipped
AtInvokeSkippingUpload(i) ==
    \/ i \in Running
    \/ TaskStarts(i)

\* the task is about to call invoke_with_keys (line 323)
AtInvoke(i) ==
    \/ i \in Running
    \/ aggOn /\ TaskStarts(i)

\* lines 119-123: the metadata collides, the task raises before invoking
TaskMetaRaise(i) ==
    /\ AtInvoke(i)
    /\ RaisesValueError(i)
    /\ task' = Fail(i, "ValueError:meta")
    /\ UNCHANGED <<aggVars, map_item_limit, mpc, caller, items, opts, callset, aggOn,
                   func_key, res, raised, pool, store, backend, futs, rpc, rargs,
                   rfut>>

\* lines 99-155: the backend accepts, the task returns the invoked handle
TaskInvoke(i) ==
    /\ AtInvoke(i)
    /\ ~RaisesValueError(i)
    /\ backend' = BagAdd(backend, InvokeCall(InvokeArgs(i), TRUE, callset, i))
    /\ task' = Finish(i, ResponseFuture(task[i].call_id, callset))
    /\ UNCHANGED <<aggVars, map_item_limit, mpc, caller, items, opts, callset, aggOn,
                   func_key, res, raised, pool, store, futs, rpc, rargs, rfut>>

\* lines 99-137: the backend rejects, the task raises
TaskInvokeRaise(i) ==
    /\ AtInvoke(i)
    /\ ~RaisesValueError(i)
    /\ backend' = BagAdd(backend, InvokeCall(InvokeArgs(i), FALSE, callset, i))
    /\ task' = Fail(i, "BackendError")
    /\ UNCHANGED <<aggVars, map_item_limit, mpc, caller, items, opts, callset, aggOn,
                   func_key, res, raised, pool, store, futs, rpc, rargs, rfut>>

(* --------------------- the remote side of a handle -------------------- *)
\* the function the user maps, run remotely on one input
UserFunc(x) == x

\* a Call of the user's map finishes remotely and its handle sees it
RemoteSucceed(k) ==
    /\ k \in 1..Len(futs)
    /\ futs[k].state = "invoked"
    /\ caller = "user"
    /\ futs' = [futs EXCEPT ![k].state = "success", ![k].value = UserFunc(items[k])]
    /\ UNCHANGED <<aggVars, map_item_limit, mapVars, store, backend, rpc, rargs, rfut>>

RemoteFail(k) ==
    /\ k \in 1..Len(futs)
    /\ futs[k].state = "invoked"
    /\ futs' = [futs EXCEPT ![k].state = "failed"]
    /\ UNCHANGED <<aggVars, map_item_limit, mapVars, store, backend, rpc, rargs, rfut>>

(* ------------------------------- reduce ------------------------------- *)
Functions == {"sum", "digits"}

RECURSIVE Sum(_)
Sum(l) == IF l = <<>> THEN 0 ELSE Head(l) + Sum(Tail(l))

RECURSIVE DigitsValue(_, _)
\* reads the list as a decimal numeral: sensitive to the order of the list
DigitsValue(l, acc) ==
    IF l = <<>> THEN acc ELSE DigitsValue(Tail(l), 10 * acc + Head(l))

\* the function handed to reduce, applied to a list
Apply(function, l) == IF function = "sum" THEN Sum(l) ELSE DigitsValue(l, 0)

RECURSIVE AccumLoopPrepend(_, _, _)
\* the loop of lines 375-377 inserting at the front of accum_list
AccumLoopPrepend(fut_list, k, accum_list) ==
    IF k = Len(fut_list) THEN accum_list
    ELSE AccumLoopPrepend(fut_list, k + 1, <<fut_list[k + 1].value>> \o accum_list)

RECURSIVE AccumLoop(_, _, _)
\* lines 375-377: accum_list after the first k handles
AccumLoop(fut_list, k, accum_list) ==
    IF k = Len(fut_list) THEN accum_list
    ELSE AccumLoop(fut_list, k + 1, Append(accum_list, fut_list[k + 1].value))

\* lines 373-378
reduce_func(function, fut_list) == Apply(function, AccumLoop(fut_list, 0, <<>>))

\* function, extra_env and extra_meta of a reduce call: the plain call, an
\* order-sensitive function with environment and metadata, and metadata that
\* names a field of the record
ReduceArgs ==
    {[function |-> "sum", envGiven |-> FALSE, extra_meta |-> EmptyDict],
     [function |-> "digits", envGiven |-> TRUE,
      extra_meta |-> [k \in {"user_tag", "host_submit_time"} |-> Tag("meta")]],
     [function |-> "sum", envGiven |-> FALSE,
      extra_meta |-> [k \in {"user_tag", "data_key"} |-> Tag("meta")]]}

\* the user calls reduce(function, list_of_futures, ...) on map's list
ReduceCall(f, envGiven, extra_meta) ==
    /\ f \in Functions
    /\ rpc = "idle"
    /\ mpc = "returned"
    /\ caller = "user"
    /\ rpc' = "wait"
    /\ rargs' = [function |-> f, envGiven |-> envGiven, extra_meta |-> extra_meta]
    /\ UNCHANGED <<aggVars, map_item_limit, mapVars, store, backend, futs, rfut>>

\* wait(list_of_futures, ALL_COMPLETED) returns: every handle succeeded
WaitReturns == \A k \in 1..Len(futs) : futs[k].state = "success"
\* wait raises: a handle failed
WaitRaises == \E k \in 1..Len(futs) : futs[k].state = "failed"

\* line 371, wait returns
ReduceWaitReturn ==
    /\ rpc = "wait"
    /\ WaitReturns
    /\ rpc' = "waited"
    /\ UNCHANGED <<aggVars, map_item_limit, mapVars, store, backend, futs, rargs, rfut>>

\* line 371, the failure of a handle reaches the caller of reduce
ReduceWaitRaise ==
    /\ rpc = "wait"
    /\ WaitRaises
    /\ rpc' = "raised"
    /\ UNCHANGED <<aggVars, map_item_limit, mapVars, store, backend, futs, rargs, rfut>>

\* call_async reached without waiting for wait to return
ReduceReadyNoWait == rpc \in {"wait", "waited"}

\* lines 371-380: call_async is reached when wait has returned
ReduceReady == rpc = "waited"

\* lines 380-381 and 157-159: call_async calls map(func, [data], env, meta)
ReduceDispatch ==
    /\ ReduceReady
    /\ rpc' = "map"
    /\ caller' = "reduce"
    /\ mpc' = "start"
    /\ items' = <<FutListItem>>
    /\ opts' = CallAsyncOptions(rargs.envGiven, rargs.extra_meta)
    /\ raised' = NoRaise
    /\ UNCHANGED <<aggVars, map_item_limit, callset, aggOn, func_key, task, res, pool,
                   store, backend, futs, rargs, rfut>>

\* line 159: the [0] of the list map returned
CallAsyncResult == res[1]

\* map returned to call_async, which returns the handle to reduce's caller
ReduceReturn ==
    /\ rpc = "map"
    /\ caller = "reduce"
    /\ mpc = "returned"
    /\ rfut' = CallAsyncResult
    /\ rpc' = "returned"
    /\ UNCHANGED <<aggVars, map_item_limit, mapVars, store, backend, futs, rargs>>

\* map raised inside call_async
ReduceRaise ==
    /\ rpc = "map"
    /\ caller = "reduce"
    /\ mpc = "raised"
    /\ rpc' = "raised"
    /\ UNCHANGED <<aggVars, map_item_limit, mapVars, store, backend, futs, rargs, rfut>>

\* the reduction Call runs remotely: reduce_func(fut_list)
ReductionRun ==
    /\ rpc = "returned"
    /\ rfut.state = "invoked"
    /\ rfut' = [rfut EXCEPT !.state = "success",
                            !.value = reduce_func(rargs.function, futs)]
    /\ UNCHANGED <<aggVars, map_item_limit, mapVars, store, backend, futs, rpc, rargs>>

(* ---------------------------- specification --------------------------- *)
Next ==
    \/ \E data \in ItemLists, o \in MapOptions : MapCall(data, o)
    \/ MapEmpty
    \/ MapLimitRaise
    \/ MapAggPut
    \/ MapAggPutRaise
    \/ MapNoAgg
    \/ MapExcludeRaise
    \/ MapFuncPut
    \/ MapFuncPutRaise
    \/ MapFuncCached
    \/ MapSubmit
    \/ MapCollect
    \/ MapCollectRaise
    \/ MapReturn
    \/ \E i \in Calls : TaskPut(i)
    \/ \E i \in Calls : TaskPutRaise(i)
    \/ \E i \in Calls : TaskMetaRaise(i)
    \/ \E i \in Calls : TaskInvoke(i)
    \/ \E i \in Calls : TaskInvokeRaise(i)
    \/ \E k \in 1..MaxN : RemoteSucceed(k)
    \/ \E k \in 1..MaxN : RemoteFail(k)
    \/ \E a \in ReduceArgs : ReduceCall(a.function, a.envGiven, a.extra_meta)
    \/ ReduceWaitReturn
    \/ ReduceWaitRaise
    \/ ReduceDispatch
    \/ ReduceReturn
    \/ ReduceRaise
    \/ ReductionRun

Spec == Init /\ [][Next]_vars

(* -------------------- agg_data called on its own ---------------------- *)
Bytes == {0, 255}
ByteStrings == UNION {[1..n -> Bytes] : n \in 0..MaxDatumLen}
PayloadLists == UNION {[1..n -> ByteStrings] : n \in 0..MaxAggLen}

InitAgg ==
    /\ InitExecutor
    /\ map_item_limit = <<>>
    /\ payloads \in PayloadLists
    /\ probe = <<0, 1>>

\* Executor.agg_data(payloads), lines 161-169
AggCall ==
    /\ ~aggOut.done
    /\ aggOut' = [done |-> TRUE, blob |-> agg_data(payloads).blob,
                  ranges |-> agg_data(payloads).ranges]
    /\ UNCHANGED <<map_item_limit, mapVars, store, backend, futs, rpc, rargs,
                   rfut, payloads, probe, call_ids>>

NextAgg == AggCall

AggSpec == InitAgg /\ [][NextAgg]_vars

(* ------------- the call ids of the submit loop on their own ----------- *)
RECURSIVE Pow10(_)
Pow10(e) == IF e = 0 THEN 1 ELSE 10 * Pow10(e - 1)

\* input indices of a map with no item limit configured
IndexSamples ==
    (0..MaxSmall) \cup {Pow10(e) - 1 : e \in 1..MaxExp}
                  \cup {Pow10(e) : e \in 1..MaxExp}
\* two indices i < j of one map over at least j + 1 inputs
IndexPairs == {p \in IndexSamples \X IndexSamples : p[1] < p[2]}

InitId ==
    /\ InitExecutor
    /\ map_item_limit = <<>>
    /\ payloads = <<>>
    /\ probe \in IndexPairs

\* line 336 in the iterations i = probe[1] and i = probe[2] of the loop
FormatIds ==
    /\ call_ids = <<>>
    /\ call_ids' = <<FormatCallId(probe[1]), FormatCallId(probe[2])>>
    /\ UNCHANGED <<map_item_limit, mapVars, store, backend, futs, rpc, rargs,
                   rfut, payloads, aggOut, probe>>

NextId == FormatIds

IdSpec == InitId /\ [][NextId]_vars

RECURSIVE StrLess(_, _)
\* a < b on strings of digits: the first differing character decides, and a
\* proper prefix is smaller
StrLess(a, b) ==
    IF a = <<>> THEN b # <<>>
    ELSE IF b = <<>> THEN FALSE
    ELSE IF Head(a) = Head(b) THEN StrLess(Tail(a), Tail(b))
    ELSE Head(a) < Head(b)

(* ------------------------------ fairness ------------------------------ *)
\* a step of the pool task of input index i
TaskStep(i) ==
    \/ TaskPut(i)
    \/ TaskPutRaise(i)
    \/ TaskMetaRaise(i)
    \/ TaskInvoke(i)
    \/ TaskInvokeRaise(i)

\* a step of the thread that called map
MapStep ==
    \/ MapEmpty \/ MapLimitRaise \/ MapAggPut \/ MapAggPutRaise \/ MapNoAgg
    \/ MapExcludeRaise \/ MapFuncPut \/ MapFuncPutRaise \/ MapFuncCached
    \/ MapSubmit \/ MapCollect \/ MapCollectRaise \/ MapReturn

\* the options that decide which steps map and its tasks take: pool size,
\* aggregation, cache key, excluded modules and colliding metadata; the
\* environment and the override map change only the content of the records
FairOptions ==
    {o \in MapOptions : ~o.envGiven /\ o.overwrite_invoke_args = EmptyDict}

\* one map call of the user and the pool it starts
MapNext ==
    \/ \E data \in ItemLists, o \in FairOptions : MapCall(data, o)
    \/ MapStep
    \/ \E i \in Calls : TaskStep(i)

\* one map call in which every store put and backend invoke returns or
\* raises, and the threads of the pool and the calling thread are scheduled
FairSpec ==
    /\ Init
    /\ [][MapNext]_vars
    /\ WF_vars(MapStep)
    /\ WF_vars(\E i \in Calls : TaskStep(i))

(* ------------------------------- claims ------------------------------- *)
\* the calls made on the backend / the store for callset cs
InvokesOf(cs) == {c \in BagToSet(backend) : c.cs = cs}
PutsOf(cs) == {c \in BagToSet(store) : c.cs = cs}
\* the calls made through reduce's call_async
ReductionInvokes == {c \in BagToSet(backend) : c.who = "reduce"}
ReductionPuts == {c \in BagToSet(store) : c.who = "reduce"}

\* C1: when map returns for N >= 1 inputs, whatever the order in which the
\* pool's tasks ran and finished, the list has length N and its i-th element
\* is the handle made for the Call of input i: call id i, this callset, the
\* very handle that Call's task returned.
C1_OrderPreserved ==
    (mpc = "returned" /\ items # <<>>) =>
        /\ Len(res) = N
        /\ \A i \in 0..(N - 1) :
              /\ res[i + 1].call_id = FormatCallId(i)
              /\ res[i + 1].callset_id = callset
              /\ res[i + 1] = task[i].val
              /\ \E c \in InvokesOf(callset) : c.idx = i /\ c.ok

\* a map over MaxN inputs whose tasks ran on several threads, each with its
\* own upload, has returned
C1_Witness ==
    /\ mpc = "returned"
    /\ caller = "user"
    /\ N = MaxN
    /\ opts.threads > 1
    /\ ~aggOn

\* C2: map on an empty collection returns the empty list, and makes no call
\* on the store or the backend and creates no pool, whatever its options.
C2_EmptyMapNoEffect ==
    items = <<>> =>
        /\ store = EmptyBag
        /\ backend = EmptyBag
        /\ pool = "none"
        /\ mpc \in {"idle", "start", "returned"}
        /\ mpc = "returned" => res = <<>>

\* map has returned on an empty list with non-default options
C2_Witness ==
    /\ mpc = "returned"
    /\ items = <<>>
    /\ res = <<>>
    /\ opts.depkey /\ opts.exclude /\ ~opts.data_all_as_one
    /\ DOMAIN opts.extra_meta # {}

\* C3: with an item limit configured and more inputs than the limit, map
\* raises and store, backend and pool are as before the call; map raises
\* this error only for more inputs than the limit, never for exactly as many.
C3_LimitRejectsBeforeEffects ==
    /\ (mpc # "idle" /\ map_item_limit # <<>> /\ N > map_item_limit[1]) =>
          /\ mpc \in {"start", "raised"}
          /\ mpc = "raised" => raised.kind = "ValueError:limit"
          /\ store = EmptyBag
          /\ backend = EmptyBag
          /\ pool = "none"
          /\ task = <<>>
    /\ raised.kind = "ValueError:limit" =>
          map_item_limit # <<>> /\ N > map_item_limit[1]
    /\ (map_item_limit # <<>> /\ N = map_item_limit[1] /\ mpc = "raised") =>
          raised.kind # "ValueError:limit"

\* map has raised for one input more than the limit
C3_Witness ==
    /\ mpc = "raised"
    /\ raised.kind = "ValueError:limit"
    /\ N = MapItemLimit + 1

\* C4: agg_data returns one range per payload, in order; slicing the blob by
\* range i gives back payload i; the first range starts at 0, each next one
\* starts right after the previous one ends, and the last ends at the last
\* byte of the blob.
C4_AggRoundTrip ==
    aggOut.done =>
        LET b == aggOut.blob
            r == aggOut.ranges
            n == Len(payloads)
        IN  /\ Len(r) = n
            /\ \A i \in 1..n : Slice(b, r[i][1], r[i][2]) = payloads[i]
            /\ n >= 1 => r[1][1] = 0 /\ r[n][2] = Len(b) - 1
            /\ \A i \in 1..(n - 1) : r[i + 1][1] = r[i][2] + 1

\* agg_data has returned for a full-length list with an empty payload
\* between two non-empty ones
C4_Witness ==
    /\ aggOut.done
    /\ Len(payloads) = MaxAggLen
    /\ payloads[1] # <<>>
    /\ payloads[2] = <<>>
    /\ payloads[3] # <<>>

\* C5 as claimed, for any number of inputs: with a key of the caller's
\* metadata already a field of the invocation record, map never returns a
\* list and no Call of the callset reaches the backend's invoke.
C5_AnyNumberOfInputs ==
    (mpc # "idle" /\ \E k \in DOMAIN opts.extra_meta : k \in BaseFields) =>
        /\ mpc # "returned"
        /\ pool = "run" => InvokesOf(callset) = {}

\* C5 (amended): when map is called on at least one input and the caller's
\* metadata has a key that is already a field of the invocation record, no
\* Call of the callset reaches the backend's invoke, no task returns a
\* handle, and map does not return a list.
C5_MetaCollisionNeverInvokes ==
    (\E k \in DOMAIN opts.extra_meta : k \in BaseFields) =>
        /\ (mpc # "idle" /\ items # <<>>) => mpc # "returned"
        /\ pool = "run" =>
              /\ InvokesOf(callset) = {}
              /\ \A i \in Calls : task[i].st # "done"
              /\ \A i \in Calls : task[i].st = "failed" =>
                    task[i].err \in {"ValueError:meta", "StoreError"}

\* map has raised the collision error of its first Call while every Call of
\* a callset of several Calls has failed
C5_Witness ==
    /\ mpc = "raised"
    /\ raised = Raise("ValueError:meta", 0)
    /\ N >= 2
    /\ \A i \in Calls : task[i].st = "failed"
    /\ "data_key" \in DOMAIN opts.extra_meta

\* the calls on the store / the backend for callset cs, with their counts
StoreOf(cs) == [e \in PutsOf(cs) |-> store[e]]
BackendOf(cs) == [e \in InvokesOf(cs) |-> backend[e]]

Terminal(k) == futs[k].state \in {"success", "failed"}

\* C6: the reduction Call is packaged and dispatched only after wait has
\* seen every supplied handle complete: whenever call_async's map has been
\* entered, or any store or backend call was made for the reduction, every
\* supplied handle is in a terminal state.
C6_DispatchAfterWait ==
    (caller = "reduce" \/ ReductionInvokes # {} \/ ReductionPuts # {}) =>
        /\ \A k \in 1..Len(futs) : Terminal(k)
        /\ rpc \in {"map", "returned", "raised"}

\* the reduction over several handles has been invoked on the backend
C6_Witness ==
    /\ ReductionInvokes # {}
    /\ Len(futs) >= 2
    /\ \A k \in 1..Len(futs) : Terminal(k)

\* C7: reduce dispatches exactly one Call, a map over the one-element list
\* holding the list of handles, and returns its single handle; when that
\* Call has run, its result is function applied to the list of the handles'
\* results in the order of the handles.
C7_ReduceOneCallInOrder ==
    /\ BagCardinality([e \in ReductionInvokes |-> backend[e]]) <= 1
    /\ rpc = "returned" =>
          /\ BagCardinality([e \in ReductionInvokes |-> backend[e]]) = 1
          /\ \A c \in ReductionInvokes : c.ok /\ c.idx = 0 /\ c.cs = callset
          /\ Len(items) = 1
          /\ Len(res) = 1
          /\ rfut.callset_id = callset
          /\ rfut.call_id = FormatCallId(0)
          /\ rfut.state = "success" =>
                rfut.value = Apply(rargs.function,
                                   [k \in 1..Len(futs) |-> futs[k].value])

\* the reduction has run with an order-sensitive function over handles whose
\* results differ
C7_Witness ==
    /\ rpc = "returned"
    /\ rfut.state = "success"
    /\ rargs.function = "digits"
    /\ Len(futs) >= 2
    /\ futs[1].value # futs[2].value

\* C8: once a supplied handle has failed, reduce never gets past its wait:
\* it is waiting or has raised, and no store or backend call has been made
\* for a reduction Call.
C8_FailedHandleNoReduction ==
    (rpc # "idle" /\ \E k \in 1..Len(futs) : futs[k].state = "failed") =>
        /\ rpc \in {"wait", "raised"}
        /\ caller = "user"
        /\ ReductionInvokes = {}
        /\ ReductionPuts = {}

\* reduce has raised over one failed and one successful handle
C8_Witness ==
    /\ rpc = "raised"
    /\ \E k \in 1..Len(futs) : futs[k].state = "failed"
    /\ \E k \in 1..Len(futs) : futs[k].state = "success"

\* the calls Call i of the current callset made itself
OwnPuts(i) == {c \in PutsOf(callset) : c.idx = i}
OwnInvokes(i) == {c \in InvokesOf(callset) : c.idx = i}

\* a task fails only through its own upload, its own record or its own
\* invocation, and succeeds only having done its own upload and invocation;
\* the exception of Call k leaves map when slot k is collected, every slot
\* before it collected
C9_Isolation ==
    /\ \A i \in Calls :
          /\ task[i].st = "failed" =>
                \/ task[i].err = "StoreError" /\ \E c \in OwnPuts(i) : ~c.ok
                \/ task[i].err = "BackendError" /\ \E c \in OwnInvokes(i) : ~c.ok
                \/ task[i].err = "ValueError:meta" /\ OwnInvokes(i) = {}
          /\ task[i].st = "done" =>
                /\ aggOn \/ \E c \in OwnPuts(i) : c.ok
                /\ \E c \in OwnInvokes(i) : c.ok
    /\ (mpc = "raised" /\ raised.idx >= 0) =>
          /\ Len(res) = raised.idx
          /\ task[raised.idx].st = "failed"
          /\ raised.kind = task[raised.idx].err

\* C9: a raising task cancels no sibling: every Call handed to the pool goes
\* on to finish by its own upload and invocation (or its own failure), also
\* after map has raised; the exception of Call k reaches the caller only when
\* slot k is collected.
C9_SiblingsNotCancelled ==
    /\ []C9_Isolation
    /\ (\E i \in Calls : task[i].st \in {"queued", "running"})
          ~> (\A i \in Calls : task[i].st \in {"done", "failed"})

\* map has raised the failure of its first Call and a sibling has finished
\* its own upload and invocation
C9_Witness ==
    /\ mpc = "raised"
    /\ raised.idx = 0
    /\ N >= 2
    /\ ~aggOn
    /\ \E j \in Calls : j > 0 /\ task[j].st = "done"

\* callset c has returned its list
ReturnedCallset(c) == c < callset \/ (c = callset /\ mpc = "returned")

\* C10: when map returns its list every task it handed to the pool has
\* finished and the pool is closed and joined; after the return no store or
\* backend call is made for that callset.
C10_DrainedAtReturn ==
    /\ [](mpc = "returned" /\ items # <<>> =>
            /\ \A i \in 0..(N - 1) : task[i].st = "done"
            /\ Queued = {} /\ Running = {}
            /\ pool = "joined")
    /\ [][\A c \in 1..callset :
            ReturnedCallset(c) =>
                /\ StoreOf(c)' = StoreOf(c)
                /\ BackendOf(c)' = BackendOf(c)]_vars

\* map has returned for a callset whose tasks uploaded on several threads
C10_Witness ==
    /\ mpc = "returned"
    /\ pool = "joined"
    /\ N = MaxN
    /\ ~aggOn
    /\ opts.threads > 1

\* C11: no Call is invoked twice and a handle is in state invoked only when
\* its Call's own invocation has returned; when map returns for N >= 1 inputs
\* the backend's invoke has been called exactly N times for the callset, once
\* for each Call, each call returned, and every handle of the list is in
\* state invoked.
C11_InvokedExactlyOnce ==
    /\ \A c \in InvokesOf(callset) : backend[c] = 1
    /\ \A i \in Calls :
          /\ Cardinality(OwnInvokes(i)) <= 1
          /\ task[i].val.state = "invoked" => \E c \in OwnInvokes(i) : c.ok
          /\ task[i].st = "done" => task[i].val.state = "invoked"
    /\ (mpc = "returned" /\ items # <<>>) =>
          /\ BagCardinality(BackendOf(callset)) = N
          /\ \A i \in 0..(N - 1) :
                /\ Cardinality(OwnInvokes(i)) = 1
                /\ \A c \in OwnInvokes(i) : c.ok
                /\ res[i + 1].state = "invoked"

\* map has returned for more Calls than the pool has threads, each invoked
C11_Witness ==
    /\ mpc = "returned"
    /\ caller = "user"
    /\ N = MaxN
    /\ opts.threads = 1
    /\ BagCardinality(BackendOf(callset)) = MaxN

\* C12 as claimed: for any two input indices i < j of a map that no item
\* limit rejects, the call ids are i and j in decimal, both of width 5,
\* distinct, and the id of i is the smaller string.
C12_FixedWidthOrdered ==
    call_ids # <<>> =>
        /\ DigitsValue(call_ids[1], 0) = probe[1]
        /\ DigitsValue(call_ids[2], 0) = probe[2]
        /\ Len(call_ids[1]) = CallIdWidth
        /\ Len(call_ids[2]) = CallIdWidth
        /\ call_ids[1] # call_ids[2]
        /\ StrLess(call_ids[1], call_ids[2])

\* the fields invoke_with_keys computes for a record, and the value it
\* computes for field k of the record of Call i, overrides aside
ComputedFields ==
    BaseFields \cup (IF opts.envGiven THEN {"extra_env"} ELSE {})
               \cup DOMAIN opts.extra_meta \cup {"host_submit_time"}
ComputedField(i, k) ==
    IF k = "host_submit_time" THEN Tag("stamp")
    ELSE IF k \in DOMAIN opts.extra_meta THEN opts.extra_meta[k]
    ELSE IF k = "extra_env" THEN Tag("env")
    ELSE TaskBaseArgs(i)[k]

\* C13: every record handed to the backend's invoke carries, for each field
\* the override map names, the override's value (a computed field, the
\* environment, a key of the caller's metadata, the submission timestamp or a
\* new field alike), and for every other field the value computed for it;
\* overriding an existing field raises no collision error.
C13_OverridesWin ==
    mpc \notin {"idle", "start"} =>
        /\ \A c \in InvokesOf(callset) :
              /\ DOMAIN c.args =
                    ComputedFields \cup DOMAIN opts.overwrite_invoke_args
              /\ \A k \in DOMAIN c.args :
                    IF k \in DOMAIN opts.overwrite_invoke_args
                    THEN c.args[k] = opts.overwrite_invoke_args[k]
                    ELSE c.args[k] = ComputedField(c.idx, k)
        /\ (\A k \in DOMAIN opts.extra_meta : k \notin BaseFields \cup {"extra_env"})
              => \A i \in Calls : task[i].err # "ValueError:meta"

\* every Call of a callset of several has been invoked with a record whose
\* data key, environment, metadata key and timestamp are the override's
C13_Witness ==
    /\ mpc = "returned"
    /\ N >= 2
    /\ DOMAIN opts.overwrite_invoke_args = OverrideFields
    /\ \A i \in Calls : \E c \in OwnInvokes(i) :
          /\ c.ok
          /\ \A k \in OverrideFields : c.args[k] = Tag("override")
          /\ c.args["call_id"] = Val("call", 0, FormatCallId(i), 0, 0)

\* the function-package puts of callset cs
FuncPutsOf(cs) == {c \in PutsOf(cs) : c.kind = "func"}

\* C14 as claimed: when map is called with a dependency-cache key on at
\* least one input, whatever the other options, no function-package put is
\* made, map raises only when the item limit, a store put, a backend invoke
\* or the metadata check of a Call raises, every record carries the key derived
\* from the cache key, and a map that returns has dispatched all N Calls.
C14_DepKeyAlwaysDispatches ==
    (opts.depkey /\ caller = "user" /\ mpc \notin {"idle", "start"}) =>
        /\ FuncPutsOf(callset) = {}
        /\ mpc = "raised" =>
              raised.kind \in {"ValueError:limit", "StoreError", "BackendError",
                               "ValueError:meta"}
        /\ \A c \in InvokesOf(callset) :
              "func_key" \notin DOMAIN opts.overwrite_invoke_args
                  => c.args["func_key"] = create_mod_key(1)
        /\ mpc = "returned" =>
              /\ Len(res) = N
              /\ \A i \in 0..(N - 1) : \E c \in OwnInvokes(i) : c.ok

\* C15 as claimed: caller metadata naming the submission timestamp
\* (host_submit_time) is rejected like metadata naming data_key: no Call of
\* the callset reaches the backend's invoke, no task returns a handle, and a
\* map over at least one input does not return.
C15_TimestampRejected ==
    ("host_submit_time" \in DOMAIN opts.extra_meta /\ mpc \notin {"idle", "start"}) =>
        /\ InvokesOf(callset) = {}
        /\ \A i \in Calls : task[i].st # "done"
        /\ items # <<>> => mpc # "returned"

\* the data puts of callset cs, with their counts
DataPutsOf(cs) == {c \in PutsOf(cs) : c.kind = "data"}
DataPutBag(cs) == [e \in DataPutsOf(cs) |-> store[e]]
\* map is past its aggregation decision for the current callset
Decided ==
    \/ mpc \in {"func", "submit", "collect", "returned"} /\ items # <<>>
    \/ mpc = "raised" /\ raised.kind \in {"NameError"}
    \/ mpc = "raised" /\ raised.idx >= 0
    \/ mpc = "raised" /\ raised.kind = "StoreError" /\ FuncPutsOf(callset) # {}

\* C16: map aggregates exactly when the payloads' total size is strictly
\* below MAX_AGG_DATA_SIZE and data_all_as_one is set. Aggregating, its only
\* data put is the one of the joined payloads under the aggregated key, and
\* the record of Call i carries that key with range ranges[i]; otherwise
\* every data put is the put of one Call's payload under that Call's own
\* key, at most one per Call and exactly N when map returns, and every
\* record carries the Call's own data key and no byte range.
C16_AggregationDecision ==
    Decided =>
        /\ aggOn <=> (SumLen(DataStrs(items)) < MAX_AGG_DATA_SIZE
                        /\ opts.data_all_as_one)
        /\ aggOn =>
              /\ BagCardinality(DataPutBag(callset)) = 1
              /\ \A p \in DataPutsOf(callset) :
                    /\ p.key = create_agg_data_key(callset)
                    /\ p.blob = Join(DataStrs(items))
                    /\ p.idx = -1 /\ p.ok
        /\ ~aggOn =>
              /\ \A p \in DataPutsOf(callset) :
                    /\ p.idx \in Calls
                    /\ p.key = create_keys(callset, FormatCallId(p.idx)).data
                    /\ p.blob = Serialize(items[p.idx + 1])
                    /\ store[p] = 1
              /\ \A i \in Calls : Cardinality({p \in DataPutsOf(callset) : p.idx = i}) <= 1
              /\ mpc = "returned" =>
                    /\ BagCardinality(DataPutBag(callset)) = N
                    /\ \A i \in Calls : \E p \in DataPutsOf(callset) : p.idx = i /\ p.ok
        /\ \A c \in InvokesOf(callset) :
              /\ "data_key" \notin DOMAIN opts.overwrite_invoke_args =>
                    c.args["data_key"] =
                        IF aggOn THEN create_agg_data_key(callset)
                        ELSE create_keys(callset, FormatCallId(c.idx)).data
              /\ "data_byte_range" \notin DOMAIN opts.overwrite_invoke_args =>
                    c.args["data_byte_range"] =
                        IF aggOn
                        THEN RangeVal(agg_data(DataStrs(items)).ranges[c.idx + 1])
                        ELSE NoneVal

\* map has returned for several Calls whose payloads went up in one put
C16_Witness ==
    /\ mpc = "returned"
    /\ caller = "user"
    /\ aggOn
    /\ N >= 2
    /\ BagCardinality(DataPutBag(callset)) = 1
    /\ DOMAIN opts.overwrite_invoke_args = {}

\* the blobs put successfully under a data key
StoredUnder(key) ==
    {p \in BagToSet(store) : p.kind = "data" /\ p.key = key /\ p.ok}
\* the bytes the Call of record c obtains: the blob under the record's data
\* key, restricted to the record's byte range when it has one
ReadBytes(c) ==
    LET p == CHOOSE q \in StoredUnder(c.args["data_key"]) : TRUE
        r == c.args["data_byte_range"]
    IN  IF r = NoneVal THEN p.blob ELSE Slice(p.blob, r.lo, r.hi)

\* C17: in aggregated and in individual mode alike, the bytes Call i obtains
\* from its record's data key and byte range are the serialized input i, so
\* for the same inputs the two modes give every Call the same bytes.
C17_SameBytesEitherMode ==
    (mpc \notin {"idle", "start"}
        /\ "data_key" \notin DOMAIN opts.overwrite_invoke_args) =>
        \A c \in InvokesOf(callset) :
            /\ Cardinality(StoredUnder(c.args["data_key"])) = 1
            /\ ReadBytes(c) = Serialize(items[c.idx + 1])
            /\ aggOn <=> c.args["data_byte_range"] # NoneVal

\* in aggregated mode a Call whose range starts inside the blob has been
\* invoked, after a Call with a payload of another length
C17_Witness ==
    /\ aggOn
    /\ caller = "user"
    /\ "data_key" \notin DOMAIN opts.overwrite_invoke_args
    /\ \E c \in InvokesOf(callset) :
          /\ c.idx = 1
          /\ c.args["data_byte_range"].lo > 0
          /\ Len(ReadBytes(c)) # Len(Serialize(items[1]))

\* the data the Call of invoke call c will read is in store s: the
\* aggregated blob put by the thread calling map, or the Call's own payload
\* put by its task
DataStored(s, c) ==
    \E p \in BagToSet(s) :
        /\ p.kind = "data" /\ p.ok /\ p.cs = c.cs
        /\ \/ p.idx = -1 /\ p.key = create_agg_data_key(c.cs)
           \/ p.idx = c.idx /\ p.key = create_keys(c.cs, FormatCallId(c.idx)).data
\* the function package of c's callset is in store s
FuncStored(s, c) ==
    \E p \in BagToSet(s) :
        p.kind = "func" /\ p.ok /\ p.cs = c.cs /\ p.key = create_func_key(c.cs)

\* C18: every step that calls the backend's invoke for a Call starts in a
\* state whose store already holds the data that Call will read and, when no
\* dependency-cache key is given, the function package of the callset; no
\* task is handed to the pool before the aggregated blob (when aggregating)
\* and the function package (without a cache key) are stored.
C18_UploadBeforeInvoke ==
    /\ [][\A c \in BagToSet(backend') \ BagToSet(backend) :
            /\ DataStored(store, c)
            /\ ~opts.depkey => FuncStored(store, c)]_vars
    /\ [](\A c \in InvokesOf(callset) :
            /\ mpc \notin {"idle", "start"} =>
                  /\ DataStored(store, c)
                  /\ ~opts.depkey => FuncStored(store, c)
                  /\ aggOn <=> \A p \in DataPutsOf(callset) : p.idx = -1)
    /\ []((mpc \notin {"idle", "start"} /\ \E i \in Calls : task[i].st # "new") =>
            /\ aggOn => \E p \in DataPutsOf(callset) : p.idx = -1 /\ p.ok
            /\ ~opts.depkey => \E p \in FuncPutsOf(callset) : p.ok)

\* without aggregation and without a cache key, the second Call has been
\* invoked after its own upload while the first Call, its upload done, has
\* not been invoked yet
C18_Witness ==
    /\ ~aggOn
    /\ ~opts.depkey
    /\ mpc = "collect"
    /\ N >= 2
    /\ task[0].st = "running"
    /\ OwnInvokes(0) = {}
    /\ \E c \in OwnInvokes(1) : c.ok /\ DataStored(store, c)

\* C19: when every put and every invoke returns or raises and the calling
\* thread and the pool's workers are scheduled, a call of map eventually
\* returns its list or raises, also for more inputs than the pool has
\* threads.
C19_MapHandsBack ==
    (mpc = "start") ~> (mpc \in {"returned", "raised"})

\* map has returned for more Calls than the pool has threads, each Call
\* having made its own upload in the single worker thread
C19_Witness ==
    /\ mpc = "returned"
    /\ opts.threads = 1
    /\ N > opts.threads
    /\ ~aggOn
    /\ \A i \in Calls : \E p \in OwnPuts(i) : p.ok

\* C20: the exception map raises out of its fan-out is the one of the
\* failed Call with the smallest input index: every Call with a smaller
\* index has finished without raising, already in the state in which map
\* takes the step that raises, whatever Calls with larger indices have
\* failed by then.
C20_SmallestFailingIndex ==
    /\ []((mpc = "raised" /\ raised.idx >= 0) =>
            /\ task[raised.idx].st = "failed"
            /\ raised.kind = task[raised.idx].err
            /\ \A j \in Calls : j < raised.idx => task[j].st = "done"
            /\ \A j \in Calls : task[j].st = "failed" => raised.idx <= j)
    /\ [][(mpc = "collect" /\ mpc' = "raised") =>
            /\ task[raised'.idx].st = "failed"
            /\ \A j \in Calls : j < raised'.idx => task[j].st = "done"]_vars

\* map has raised the error of its second Call, the first one collected,
\* while the third Call has failed with another error on another thread
C20_Witness ==
    /\ mpc = "raised"
    /\ raised.idx = 1
    /\ opts.threads >= 2
    /\ task[0].st = "done"
    /\ 2 \in Calls
    /\ task[2].st = "failed"
    /\ task[2].err # raised.kind

====
